---- MODULE Spec2Model ----
(***************************************************************************)
(* A model of two parts of the repository:                                 *)
(*   - go/types lookup: LookupFieldOrMethod, consolidateMultiples,         *)
(*     MissingMethod, deref, concat, lookupMethod (src/unnamed/part_000)   *)
(*   - refactor/importgraph: Graph.addEdge, Build                          *)
(*     (src/refactor/importgraph/graph.go)                                 *)
(***************************************************************************)
EXTENDS Integers, Sequences, FiniteSets, TLC

VARIABLES
    named,      \* the type graph: named type id -> [pkg, methods, underlying]
    typ0,       \* LookupFieldOrMethod argument typ (also MissingMethod's typ)
    pkg,        \* LookupFieldOrMethod argument pkg (a package path)
    name,       \* LookupFieldOrMethod argument name
    typ,        \* the local variable typ (reassigned at line 41 and line 83)
    current,    \* the frontier: a sequence of embeddedType
    seen,       \* the set of named types with seen[t] = true
    obj,        \* result obj
    index,      \* result index (<<>> is the nil slice)
    indirect,   \* result indirect
    pc,         \* position in LookupFieldOrMethod: "entry", "loop", "done", "idle"
    expanded,   \* history: how often line 66 ran for each named type
    T,          \* MissingMethod argument T (an interface)
    mmResult,   \* MissingMethod results [method, wrongType]
    mmpc,       \* position in MissingMethod: "call", "done", "idle"
    ws,         \* the workspace behind ctxt: path -> [status, imports, testImports, xtestImports]
    found,      \* the paths ForEachPackage has called back for
    ppc,        \* position of the goroutine of each path (lines 72-95)
    pos,        \* how many import edges the goroutine of each path has sent
    wg,         \* the counter of the sync.WaitGroup
    closer,     \* position of the goroutine of lines 97-100
    chClosed,   \* whether close(ch) has run
    mainpc,     \* position of Build itself
    evt,        \* the event the range loop has received (line 105)
    forward,    \* result forward
    reverse,    \* result reverse
    errors,     \* result errors: [made, at] (not made is the nil map)
    graph,      \* Search receiver g
    roots,      \* Search argument roots
    visited,    \* the local map seen of Search: the set of x with seen[x] = true
    stack,      \* the active calls of visit, innermost last: [x, at, rest]
    nextRoot,   \* how many roots the loop of line 48 has taken
    spc         \* position in Search: "roots", "visit", "done", "idle"

lookupVars == <<named, typ0, pkg, name, typ, current, seen, obj, index, indirect, pc, expanded>>

missingVars == <<T, mmResult, mmpc>>

buildVars == <<ws, found, ppc, pos, wg, closer, chClosed, mainpc, evt, forward, reverse, errors>>

searchVars == <<graph, roots, visited, stack, nextRoot, spc>>

vars == <<lookupVars, missingVars, buildVars, searchVars>>

(***************************************************************************)
(* The type model.  Indices in index paths are 0-based, as in Go.          *)
(***************************************************************************)
NamedIds == {"A", "B", "C"}

PkgPaths == {"p", "q"}

\* names for which ast.IsExported holds (first letter is upper case)
ExportedNames == {"A", "B", "C", "X"}

Nil == ""

BasicT == [kind |-> "Basic"]

NamedT(id) == [kind |-> "Named", id |-> id]

PointerT(base) == [kind |-> "Pointer", base |-> base]

StructT(fields) == [kind |-> "Struct", fields |-> fields]

InterfaceT(methods) == [kind |-> "Interface", methods |-> methods]

NewField(p, n, t, anonymous) == [name |-> n, pkg |-> p, typ |-> t, anonymous |-> anonymous]

\* recv is "nil" (interface method), "value" or "pointer" (declared receiver)
NewFunc(p, n, recv, sig) == [name |-> n, pkg |-> p, recv |-> recv, sig |-> sig]

NoObj == [class |-> "nil"]

FieldObj(owner, i, f) == [class |-> "Field", owner |-> owner, i |-> i, decl |-> f]

FuncObj(owner, i, m) == [class |-> "Func", owner |-> owner, i |-> i, decl |-> m]

\* an embeddedType that forgets the indirection
embeddedType_NoIndirect(t, idx, ind, mult) ==
    [typ |-> t, index |-> idx, indirect |-> FALSE, multiples |-> mult]

embeddedType(t, idx, ind, mult) == [typ |-> t, index |-> idx, indirect |-> ind, multiples |-> mult]

(***************************************************************************)
(* Helpers of part_000.                                                    *)
(***************************************************************************)
\* every name taken for exported
IsExported_Always(n) == TRUE

IsExported(n) == n \in ExportedNames

deref(t) ==
    IF t.kind = "Pointer" THEN [typ |-> t.base, isPtr |-> TRUE]
    ELSE [typ |-> t, isPtr |-> FALSE]

\* concat that forgets the embedded fields traversed
concat_Last(list, i) == <<i>>

concat(list, i) == Append(list, i)

RECURSIVE lookupMethodFrom(_, _, _, _)
lookupMethodFrom(methods, p, n, k) ==
    IF k > Len(methods) THEN [i |-> -1, m |-> NoObj]
    ELSE IF methods[k].name = n /\ (IsExported(n) \/ methods[k].pkg = p)
         THEN [i |-> k - 1, m |-> methods[k]]
         ELSE lookupMethodFrom(methods, p, n, k + 1)

\* mutant: the package is not compared (line 277 without its visibility test)
RECURSIVE lookupMethodAnyPkgFrom(_, _, _, _)
lookupMethodAnyPkgFrom(methods, p, n, k) ==
    IF k > Len(methods) THEN [i |-> -1, m |-> NoObj]
    ELSE IF methods[k].name = n THEN [i |-> k - 1, m |-> methods[k]]
         ELSE lookupMethodAnyPkgFrom(methods, p, n, k + 1)

lookupMethod_AnyPkg(methods, p, n) == lookupMethodAnyPkgFrom(methods, p, n, 1)

lookupMethod(methods, p, n) == lookupMethodFrom(methods, p, n, 1)

isMatch(f, p, n) == f.name = n /\ (IsExported(n) \/ f.pkg = p)

(***************************************************************************)
(* consolidateMultiples: the list is rewritten in place while it is read.  *)
(* c = [list, n, prev] after k-1 iterations; prev maps a type to an index. *)
(***************************************************************************)
RECURSIVE consolidateFrom(_, _, _)
consolidateFrom(orig, k, c) ==
    IF k > Len(orig) THEN SubSeq(c.list, 1, c.n)
    ELSE LET e == c.list[k]
         IN IF e.typ \in DOMAIN c.prev
            THEN consolidateFrom(orig, k + 1,
                     [c EXCEPT !.list[c.prev[e.typ] + 1].multiples = TRUE])
            ELSE consolidateFrom(orig, k + 1,
                     [list |-> [c.list EXCEPT ![c.n + 1] = e],
                      n    |-> c.n + 1,
                      prev |-> [t \in DOMAIN c.prev \cup {e.typ} |->
                                   IF t = e.typ THEN c.n ELSE c.prev[t]]])

RECURSIVE firstOfEachType(_, _, _)
firstOfEachType(list, k, out) ==
    IF k > Len(list) THEN out
    ELSE IF \E j \in 1..Len(out) : out[j].typ = list[k].typ
         THEN firstOfEachType(list, k + 1, out)
         ELSE firstOfEachType(list, k + 1, Append(out, list[k]))

\* consolidateMultiples without line 167: duplicates are dropped, unmarked
consolidateMultiples_NoFlag(list) == firstOfEachType(list, 1, <<>>)

consolidateMultiples(list) ==
    IF Len(list) <= 1 THEN list
    ELSE consolidateFrom(list, 1, [list |-> list, n |-> 0, prev |-> [t \in {} |-> 0]])

(***************************************************************************)
(* LookupFieldOrMethod.  st is the record of the function's locals:        *)
(* typ, current, seen, obj, index, indirect, plus next (line 50), ret (a   *)
(* return from inside the loops, lines 75, 95, 127) and pc.                *)
(***************************************************************************)
\* mutant: no collision test, the last match wins
Match_LastWins(st, e, i, o) ==
    [st EXCEPT !.index = concat(e.index, i), !.obj = o, !.indirect = e.indirect]

\* mutant: a collision returns without the index of the ambiguous entry
Match_NoIndex(st, e, i, o) ==
    IF st.obj # NoObj \/ e.multiples
    THEN [st EXCEPT !.index = <<>>, !.obj = NoObj, !.ret = TRUE]
    ELSE [st EXCEPT !.index = concat(e.index, i), !.obj = o, !.indirect = e.indirect]

\* lines 72-78, 92-98, 124-130: a potential match o with member index i in entry e
Match(st, e, i, o) ==
    IF st.obj # NoObj \/ e.multiples
    THEN [st EXCEPT !.index = concat(e.index, i), !.obj = NoObj, !.ret = TRUE]
    ELSE [st EXCEPT !.index = concat(e.index, i), !.obj = o, !.indirect = e.indirect]

\* lines 89-118: the fields of a struct, from field k on
RECURSIVE ScanFields(_, _, _, _, _, _)
ScanFields(fields, k, e, st, p, n) ==
    IF k > Len(fields) \/ st.ret THEN st
    ELSE LET f == fields[k]
         IN IF isMatch(f, p, n)
            THEN ScanFields(fields, k + 1, e, Match(st, e, k - 1, FieldObj(e.typ, k - 1, f)), p, n)
            ELSE IF st.obj = NoObj /\ f.anonymous /\ deref(f.typ).typ.kind = "Named"
                 THEN ScanFields(fields, k + 1, e,
                          [st EXCEPT !.next = Append(@,
                              embeddedType(deref(f.typ).typ.id, concat(e.index, k - 1),
                                           e.indirect \/ deref(f.typ).isPtr, e.multiples))],
                          p, n)
                 ELSE ScanFields(fields, k + 1, e, st, p, n)

\* lines 86-132: the switch on the (underlying) type in st.typ
SwitchTyp(st, e, p, n) ==
    IF st.typ.kind = "Struct" THEN ScanFields(st.typ.fields, 1, e, st, p, n)
    ELSE IF st.typ.kind = "Interface"
         THEN LET r == lookupMethod(st.typ.methods, p, n)
              IN IF r.i >= 0 THEN Match(st, e, r.i, FuncObj(e.typ, r.i, r.m)) ELSE st
         ELSE st

\* mutant: seen is never consulted (lines 58-65 dropped)
ProcessEntry_NoSeen(e, st, p, n) ==
    IF e.typ # Nil
    THEN LET s1 == [st EXCEPT !.seen = @ \cup {e.typ}, !.expanded[e.typ] = @ + 1]
             r  == lookupMethod(named[e.typ].methods, p, n)
         IN IF r.i >= 0 THEN Match(s1, e, r.i, FuncObj(e.typ, r.i, r.m))
            ELSE SwitchTyp([s1 EXCEPT !.typ = named[e.typ].underlying], e, p, n)
    ELSE SwitchTyp(st, e, p, n)

\* lines 53-133: one entry of current
ProcessEntry(e, st, p, n) ==
    IF e.typ # Nil
    THEN IF e.typ \in st.seen THEN st
         ELSE LET s1 == [st EXCEPT !.seen = @ \cup {e.typ}, !.expanded[e.typ] = @ + 1]
                  r  == lookupMethod(named[e.typ].methods, p, n)
              IN IF r.i >= 0 THEN Match(s1, e, r.i, FuncObj(e.typ, r.i, r.m))
                 ELSE SwitchTyp([s1 EXCEPT !.typ = named[e.typ].underlying], e, p, n)
    ELSE SwitchTyp(st, e, p, n)

RECURSIVE ScanCurrent(_, _, _, _, _)
ScanCurrent(cur, k, st, p, n) ==
    IF k > Len(cur) \/ st.ret THEN st
    ELSE ScanCurrent(cur, k + 1, ProcessEntry(cur[k], st, p, n), p, n)

\* mutant: a match does not end the search (lines 135-137 dropped)
DepthStep_NoStop(st, p, n) ==
    LET s1 == ScanCurrent(st.current, 1, [st EXCEPT !.next = <<>>], p, n)
    IN IF s1.ret THEN [s1 EXCEPT !.pc = "done"]
       ELSE [s1 EXCEPT !.current = consolidateMultiples(s1.next)]

\* lines 49-140: one iteration of the loop over depths (len(current) > 0)
DepthStep(st, p, n) ==
    LET s1 == ScanCurrent(st.current, 1, [st EXCEPT !.next = <<>>], p, n)
    IN IF s1.ret \/ s1.obj # NoObj THEN [s1 EXCEPT !.pc = "done"]
       ELSE [s1 EXCEPT !.current = consolidateMultiples(s1.next)]

\* lines 142-144
NotFound(st) == [st EXCEPT !.index = <<>>, !.indirect = FALSE, !.pc = "done"]

\* lines 41-46
LookupStart(t) ==
    LET d == deref(t)
    IN [typ      |-> d.typ,
        current  |-> <<embeddedType(IF d.typ.kind = "Named" THEN d.typ.id ELSE Nil,
                                    <<>>, d.isPtr, FALSE)>>,
        seen     |-> {},
        obj      |-> NoObj,
        index    |-> <<>>,
        indirect |-> FALSE,
        next     |-> <<>>,
        ret      |-> FALSE,
        pc       |-> "loop",
        expanded |-> [t2 \in NamedIds |-> 0]]

RECURSIVE LookupRun(_, _, _)
LookupRun(st, p, n) ==
    IF st.pc = "done" THEN st
    ELSE IF Len(st.current) > 0 THEN LookupRun(DepthStep(st, p, n), p, n)
         ELSE NotFound(st)

\* the whole function, as MissingMethod calls it
LookupFieldOrMethod(t, p, n) ==
    IF n = "_" THEN [obj |-> NoObj, index |-> <<>>, indirect |-> FALSE]
    ELSE LET r == LookupRun(LookupStart(t), p, n)
         IN [obj |-> r.obj, index |-> r.index, indirect |-> r.indirect]

(***************************************************************************)
(* MissingMethod.  The result is [method, wrongType]; method is NoObj for  *)
(* a nil *Func.                                                            *)
(***************************************************************************)
\* Type.Underlying(): the underlying type of a named type, else the type itself
Underlying(t) == IF t.kind = "Named" THEN named[t.id].underlying ELSE t

\* IsIdentical on two signatures (the receiver is not part of a signature's identity)
IsIdentical(f, m) == f.sig = m.sig

Implements == [method |-> NoObj, wrongType |-> FALSE]

\* lines 193-202: typ is an interface
RECURSIVE MissingInInterface(_, _, _)
MissingInInterface(ityp, methods, k) ==
    IF k > Len(methods) THEN Implements
    ELSE LET m == methods[k]
             r == lookupMethod(ityp.methods, m.pkg, m.name)
         IN IF r.i < 0 THEN [method |-> m, wrongType |-> FALSE]
            ELSE IF ~IsIdentical(r.m, m) THEN [method |-> m, wrongType |-> TRUE]
            ELSE MissingInInterface(ityp, methods, k + 1)

\* mutant: the method set of typ is not consulted (lines 217-223 dropped)
RECURSIVE MissingInConcrete_AnyRecv(_, _, _)
MissingInConcrete_AnyRecv(t, methods, k) ==
    IF k > Len(methods) THEN Implements
    ELSE LET m == methods[k]
             r == LookupFieldOrMethod(t, m.pkg, m.name)
         IN IF r.obj = NoObj THEN [method |-> m, wrongType |-> FALSE]
            ELSE IF r.obj.class # "Func" THEN [method |-> m, wrongType |-> FALSE]
            ELSE IF ~IsIdentical(r.obj.decl, m) THEN [method |-> m, wrongType |-> TRUE]
            ELSE MissingInConcrete_AnyRecv(t, methods, k + 1)

\* mutant: a method that is found is checked for its signature first
RECURSIVE MissingInConcrete_SigFirst(_, _, _)
MissingInConcrete_SigFirst(t, methods, k) ==
    IF k > Len(methods) THEN Implements
    ELSE LET m == methods[k]
             r == LookupFieldOrMethod(t, m.pkg, m.name)
         IN IF r.obj = NoObj THEN [method |-> m, wrongType |-> FALSE]
            ELSE IF r.obj.class # "Func" THEN [method |-> m, wrongType |-> FALSE]
            ELSE IF ~IsIdentical(r.obj.decl, m) THEN [method |-> m, wrongType |-> TRUE]
            ELSE IF r.obj.decl.recv = "pointer" /\ ~r.indirect
                 THEN [method |-> m, wrongType |-> FALSE]
            ELSE MissingInConcrete_SigFirst(t, methods, k + 1)

\* lines 206-228: typ is a concrete type
RECURSIVE MissingInConcrete(_, _, _)
MissingInConcrete(t, methods, k) ==
    IF k > Len(methods) THEN Implements
    ELSE LET m == methods[k]
             r == LookupFieldOrMethod(t, m.pkg, m.name)
         IN IF r.obj = NoObj THEN [method |-> m, wrongType |-> FALSE]
            ELSE IF r.obj.class # "Func" THEN [method |-> m, wrongType |-> FALSE]
            ELSE IF r.obj.decl.recv # "nil" /\ r.obj.decl.recv = "pointer" /\ ~r.indirect
                 THEN [method |-> m, wrongType |-> FALSE]
            ELSE IF ~IsIdentical(r.obj.decl, m) THEN [method |-> m, wrongType |-> TRUE]
            ELSE MissingInConcrete(t, methods, k + 1)

MissingMethod(t, iface) ==
    IF Len(iface.methods) = 0 THEN Implements
    ELSE IF Underlying(t).kind = "Interface"
         THEN MissingInInterface(Underlying(t), iface.methods, 1)
         ELSE MissingInConcrete(t, iface.methods, 1)

(***************************************************************************)
(* The inputs of the lookup: type graphs over NamedIds, as the type        *)
(* checker builds them (field names unique within a struct, an embedded    *)
(* field named after its type, members declared in the package of the      *)
(* type).                                                                  *)
(***************************************************************************)
\* most embedded fields in a type graph, over all its structs
MaxEmbeds == 4

\* the same, for the graphs looked up by "_" or by the name of an embedded field
MaxEmbedsOther == 2

\* most fields, and most methods, of the type in a graph without embedding
MaxFlat == 2

Owns == {"none", "field", "method", "iface"}

FlatNames == {"x", "y", "X"}

RECURSIVE SeqsOver(_, _)
SeqsOver(S, len) ==
    IF len = 0 THEN {<<>>}
    ELSE LET shorter == SeqsOver(S, len - 1)
         IN shorter \cup {Append(s, x) : s \in {t \in shorter : Len(t) = len - 1}, x \in S}

Distinct(s) == \A i, j \in 1..Len(s) : i # j => s[i] # s[j]

Range(s) == {s[i] : i \in 1..Len(s)}

RECURSIVE SumLen(_, _)
SumLen(f, S) ==
    IF S = {} THEN 0
    ELSE LET x == CHOOSE y \in S : TRUE IN Len(f[x]) + SumLen(f, S \ {x})

EmbedSeqs == {s \in SeqsOver(NamedIds, Cardinality(NamedIds)) : Distinct(s)}

EmbedFields(p, embeds, ptrs) ==
    [k \in 1..Len(embeds) |->
        NewField(p, embeds[k],
                 IF embeds[k] \in ptrs THEN PointerT(NamedT(embeds[k])) ELSE NamedT(embeds[k]),
                 TRUE)]

\* a named type: type id struct{ embeds...; x T } or interface{ x() } or a basic type,
\* with a method x if own = "method"
TypeDecl(id, own, embeds, foreign, ptrs, recv) ==
    LET p == IF id \in foreign THEN "q" ELSE "p"
    IN [pkg        |-> p,
        methods    |-> IF own = "method" THEN <<NewFunc(p, "x", recv, "s1")>> ELSE <<>>,
        underlying |->
            IF own = "iface" THEN InterfaceT(<<NewFunc(p, "x", "nil", "s1")>>)
            ELSE IF own = "none" /\ embeds = <<>> THEN BasicT
            ELSE StructT(EmbedFields(p, embeds, ptrs)
                         \o (IF own = "field" THEN <<NewField(p, "x", BasicT, FALSE)>>
                             ELSE <<>>))]

Graphs(maxEmbeds) ==
    {[id \in NamedIds |-> TypeDecl(id, own[id], embeds[id], foreign, {}, "value")] :
        own \in [NamedIds -> Owns],
        embeds \in {e \in [NamedIds -> EmbedSeqs] : SumLen(e, NamedIds) <= maxEmbeds},
        foreign \in {{}} \cup {{id} : id \in NamedIds}}

\* type A struct{ fields... } with methods, no embedded named type; B and C unused
FlatDecl(p, fseq, mseq) ==
    [pkg        |-> p,
     methods    |-> [k \in 1..Len(mseq) |-> NewFunc(p, mseq[k], "value", "s1")],
     underlying |-> StructT([k \in 1..Len(fseq) |->
                        NewField(p, fseq[k], BasicT, fseq[k] = "int")])]

FlatGraphs ==
    {[id \in NamedIds |->
        IF id = "A" THEN FlatDecl(p, fseq, mseq)
        ELSE [pkg |-> "p", methods |-> <<>>, underlying |-> BasicT]] :
        p \in PkgPaths,
        fseq \in {s \in SeqsOver(FlatNames \cup {"int"}, MaxFlat) : Distinct(s)},
        mseq \in {s \in SeqsOver(FlatNames, MaxFlat) : Distinct(s)}}

ValidFlat(g) ==
    \A i \in 1..Len(g["A"].methods), j \in 1..Len(g["A"].underlying.fields) :
        g["A"].methods[i].name # g["A"].underlying.fields[j].name

StartTypes(g) == {NamedT("A"), g["A"].underlying}

LookupInputs ==
    \/ /\ named \in Graphs(MaxEmbeds)
       /\ name = "x"
    \/ /\ named \in Graphs(MaxEmbedsOther)
       /\ name \in {"_", "B"}
    \/ /\ named \in {g \in FlatGraphs : ValidFlat(g)}
       /\ name \in FlatNames \cup {"_"}

\* Graph.Search is not running
SearchIdle ==
    /\ graph = <<>>
    /\ roots = <<>>
    /\ visited = {}
    /\ stack = <<>>
    /\ nextRoot = 0
    /\ spc = "idle"

\* importgraph.Build is not running
BuildIdle ==
    /\ ws = <<>>
    /\ found = {}
    /\ ppc = <<>>
    /\ pos = <<>>
    /\ wg = 0
    /\ closer = "idle"
    /\ chClosed = FALSE
    /\ mainpc = "idle"
    /\ evt = [type |-> "none"]
    /\ forward = <<>>
    /\ reverse = <<>>
    /\ errors = [made |-> FALSE, at |-> <<>>]

\* MissingMethod is not running
MissingIdle ==
    /\ T = InterfaceT(<<>>)
    /\ mmResult = Implements
    /\ mmpc = "idle"

InitLookup ==
    /\ LookupInputs
    /\ typ0 \in StartTypes(named)
    /\ pkg = "p"
    /\ typ = typ0
    /\ current = <<>>
    /\ seen = {}
    /\ obj = NoObj
    /\ index = <<>>
    /\ indirect = FALSE
    /\ pc = "entry"
    /\ expanded = [t \in NamedIds |-> 0]
    /\ MissingIdle
    /\ BuildIdle
    /\ SearchIdle

Locals ==
    [typ |-> typ, current |-> current, seen |-> seen, obj |-> obj, index |-> index,
     indirect |-> indirect, next |-> <<>>, ret |-> FALSE, pc |-> pc, expanded |-> expanded]

SetLocals(st) ==
    /\ typ' = st.typ
    /\ current' = st.current
    /\ seen' = st.seen
    /\ obj' = st.obj
    /\ index' = st.index
    /\ indirect' = st.indirect
    /\ pc' = st.pc
    /\ expanded' = st.expanded
    /\ UNCHANGED <<named, typ0, pkg, name, missingVars, buildVars, searchVars>>

\* lines 35-46: the blank name returns at once; otherwise the frontier is set up
LookupEnter ==
    /\ pc = "entry"
    /\ IF name = "_" THEN SetLocals([Locals EXCEPT !.pc = "done"])
       ELSE SetLocals([LookupStart(typ0) EXCEPT !.expanded = expanded])

\* lines 49-140: one depth of the search
LookupDepth ==
    /\ pc = "loop"
    /\ Len(current) > 0
    /\ SetLocals(DepthStep(Locals, pkg, name))

\* lines 142-144: the frontier is empty
LookupNotFound ==
    /\ pc = "loop"
    /\ Len(current) = 0
    /\ SetLocals(NotFound(Locals))

NextLookup == LookupEnter \/ LookupDepth \/ LookupNotFound

SpecLookup == InitLookup /\ [][NextLookup]_vars

(***************************************************************************)
(* Deeper type graphs, over four named types: a type embedded by two types *)
(* of one depth, types embedded by it in turn, fields embedded by value    *)
(* and by pointer, and lookups that start at A, at *A and at the struct    *)
(* type of A.                                                              *)
(***************************************************************************)
DeepIds == {"A", "B", "C", "D"}

DeepOwns ==
    {[id \in DeepIds |-> IF id = "A" THEN oa ELSE IF id = "B" THEN ob
                         ELSE IF id = "C" THEN oc ELSE od] :
        oa \in {"none", "field", "method"}, ob \in {"none", "field", "method"},
        oc \in {"none", "field", "method"}, od \in Owns}

DeepEmbeds ==
    {[id \in DeepIds |-> IF id = "A" THEN ea ELSE IF id = "B" THEN eb
                         ELSE IF id = "C" THEN ec ELSE ed] :
        ea \in {<<"B">>, <<"B", "C">>, <<"C", "B">>, <<"B", "C", "D">>},
        eb \in {<<>>, <<"C">>, <<"D">>, <<"D", "C">>},
        ec \in {<<>>, <<"D">>, <<"A">>},
        ed \in {<<>>, <<"A">>}}

DeepGraphs ==
    {[id \in DeepIds |-> TypeDecl(id, own[id], embeds[id], foreign, ptrs, "value")] :
        own \in DeepOwns, embeds \in DeepEmbeds,
        foreign \in {{}, {"B"}},
        ptrs \in {{}, {"B"}, {"C"}, {"D"}, {"B", "D"}}}

InitLookupDeep ==
    /\ named \in DeepGraphs
    /\ name = "x"
    /\ typ0 \in {NamedT("A"), PointerT(NamedT("A")), named["A"].underlying}
    /\ pkg = "p"
    /\ typ = typ0
    /\ current = <<>>
    /\ seen = {}
    /\ obj = NoObj
    /\ index = <<>>
    /\ indirect = FALSE
    /\ pc = "entry"
    /\ expanded = [t \in DeepIds |-> 0]
    /\ MissingIdle
    /\ BuildIdle
    /\ SearchIdle

SpecLookupDeep == InitLookupDeep /\ [][NextLookup]_vars

(***************************************************************************)
(* The inputs of MissingMethod: a type A (or *A) whose struct may embed B  *)
(* and C, by value or by pointer, B may embed C; each type may declare x   *)
(* and y as a field, as a method with a value or a pointer receiver and    *)
(* signature s1 or s2, or as an interface method; T requires x and y with  *)
(* signature s1.                                                           *)
(***************************************************************************)
MethodKinds == {"mv1", "mv2", "mp1", "mp2"}

RecvOf(k) == IF k \in {"mp1", "mp2"} THEN "pointer" ELSE "value"

SigOf(k) == IF k \in {"mv2", "mp2"} THEN "s2" ELSE "s1"

StructOpts(xks, yks) == {[u |-> "struct", x |-> xk, y |-> yk] : xk \in xks, yk \in yks}

IfaceOpts(xks, yks) == {[u |-> "iface", x |-> xk, y |-> yk] : xk \in xks, yk \in yks}

OptsA ==
    StructOpts({"none", "field"} \cup MethodKinds, {"none", "mv1", "mp1"})
        \cup IfaceOpts({"none", "mv1", "mv2"}, {"none", "mv1"})

OptsB ==
    StructOpts({"none", "field"} \cup MethodKinds, {"none", "mv1"})
        \cup IfaceOpts({"none", "mv1"}, {"none"})

OptsC == StructOpts({"none", "field", "mv1"}, {"none"})

MissingDecl(o, embeds, ptrs) ==
    LET meth(n, k) == IF k \in MethodKinds THEN <<NewFunc("p", n, RecvOf(k), SigOf(k))>>
                      ELSE <<>>
        imeth(n, k) == IF k \in MethodKinds THEN <<NewFunc("p", n, "nil", SigOf(k))>>
                       ELSE <<>>
    IN IF o.u = "iface"
       THEN [pkg |-> "p", methods |-> <<>>,
             underlying |-> InterfaceT(imeth("x", o.x) \o imeth("y", o.y))]
       ELSE [pkg |-> "p", methods |-> meth("x", o.x) \o meth("y", o.y),
             underlying |-> StructT(EmbedFields("p", embeds, ptrs)
                                \o (IF o.x = "field"
                                    THEN <<NewField("p", "x", BasicT, FALSE)>> ELSE <<>>))]

MissingGraphs ==
    {[id \in NamedIds |->
        IF id = "A" THEN MissingDecl(oa, ea, ptrs)
        ELSE IF id = "B" THEN MissingDecl(ob, eb, ptrs)
        ELSE MissingDecl(oc, <<>>, ptrs)] :
        oa \in OptsA, ob \in OptsB, oc \in OptsC,
        ea \in {<<>>, <<"B">>, <<"C">>, <<"B", "C">>, <<"C", "B">>},
        eb \in {<<>>, <<"C">>},
        ptrs \in {{}, {"B"}, {"C"}}}

Requires(n) == NewFunc("p", n, "nil", "s1")

RequiredSets ==
    {InterfaceT(<<>>), InterfaceT(<<Requires("x")>>),
     InterfaceT(<<Requires("x"), Requires("y")>>),
     InterfaceT(<<Requires("y"), Requires("x")>>)}

\* LookupFieldOrMethod is not running on its own
LookupIdle ==
    /\ pkg = "p"
    /\ name = "_"
    /\ typ = typ0
    /\ current = <<>>
    /\ seen = {}
    /\ obj = NoObj
    /\ index = <<>>
    /\ indirect = FALSE
    /\ pc = "idle"
    /\ expanded = [t \in NamedIds |-> 0]

InitMissing ==
    /\ named \in MissingGraphs
    /\ typ0 \in {NamedT("A"), PointerT(NamedT("A"))}
    /\ T \in RequiredSets
    /\ mmResult = Implements
    /\ mmpc = "call"
    /\ LookupIdle
    /\ BuildIdle
    /\ SearchIdle

\* lines 182-231, with the calls of LookupFieldOrMethod it makes
MissingMethodCall ==
    /\ mmpc = "call"
    /\ mmResult' = MissingMethod(typ0, T)
    /\ mmpc' = "done"
    /\ UNCHANGED <<lookupVars, T, buildVars, searchVars>>

NextMissing == MissingMethodCall

SpecMissing == InitMissing /\ [][NextMissing]_vars

(***************************************************************************)
(* refactor/importgraph.  A Graph is a function from the keys of the map   *)
(* to the set of keys of the inner map (every inner value is true).        *)
(***************************************************************************)
Pkgs == {"a", "b", "c"}

ImportPaths == Pkgs \cup {"C"}

EmptyGraph == <<>>

\* g[from][to], false for a missing key
HasEdge(g, from, to) == from \in DOMAIN g /\ to \in g[from]

\* addEdge with a fresh inner map on every call
addEdge_Overwrite(g, from, to) ==
    [x \in DOMAIN g \cup {from} |-> IF x = from THEN {to} ELSE g[x]]

addEdge(g, from, to) ==
    IF from \in DOMAIN g
    THEN [g EXCEPT ![from] = @ \cup {to}]
    ELSE [x \in DOMAIN g \cup {from} |-> IF x = from THEN {to} ELSE g[x]]

pathError(path, err) == [type |-> "pathError", path |-> path, err |-> err]

importEdge(from, to) == [type |-> "importEdge", from |-> from, to |-> to]

NoEvent == [type |-> "none"]

\* the import paths the goroutine of p sends, in the order of lines 86-94
AllImports(p) == ws[p].imports \o ws[p].testImports \o ws[p].xtestImports

(***************************************************************************)
(* The workspaces: each package is reported with an error by the           *)
(* enumeration, has no buildable Go source, fails to load, or loads with   *)
(* its three import lists.                                                 *)
(***************************************************************************)
MaxImports == 2

Failed(status) == [status |-> status, imports |-> <<>>, testImports |-> <<>>, xtestImports |-> <<>>]

Failures == {Failed("enumErr"), Failed("nogo"), Failed("loadErr")}

Package(i, t, x) == [status |-> "ok", imports |-> i, testImports |-> t, xtestImports |-> x]

Loaded(maxImports, targets) ==
    {b \in {Package(i, t, x) : i \in SeqsOver(targets, maxImports),
                               t \in SeqsOver(targets, 1),
                               x \in SeqsOver(targets, 1)} :
        Len(b.imports) + Len(b.testImports) + Len(b.xtestImports) <= maxImports}

Workspaces ==
    {[p \in Pkgs |-> IF p = "a" THEN wa ELSE IF p = "b" THEN wb ELSE wc] :
        wa \in Failures \cup Loaded(MaxImports, {"b", "c", "C"}),
        wb \in Failures \cup {Package(<<>>, <<>>, <<>>), Package(<<"a">>, <<>>, <<>>),
                              Package(<<>>, <<"c">>, <<>>), Package(<<>>, <<>>, <<"b">>),
                              Package(<<"C">>, <<>>, <<>>)},
        wc \in Failures \cup {Package(<<>>, <<>>, <<>>), Package(<<"a">>, <<>>, <<>>)}}

\* no type is being looked up
TypesIdle ==
    /\ named = [id \in NamedIds |-> [pkg |-> "p", methods |-> <<>>, underlying |-> BasicT]]
    /\ typ0 = BasicT
    /\ LookupIdle
    /\ MissingIdle

InitBuild ==
    /\ ws \in Workspaces
    /\ found = {}
    /\ ppc = [p \in Pkgs |-> "none"]
    /\ pos = [p \in Pkgs |-> 0]
    /\ wg = 0
    /\ closer = "none"
    /\ chClosed = FALSE
    /\ mainpc = "ForEachPackage"
    /\ evt = NoEvent
    /\ forward = EmptyGraph
    /\ reverse = EmptyGraph
    /\ errors = [made |-> FALSE, at |-> <<>>]
    /\ TypesIdle
    /\ SearchIdle

\* lines 70-72: ForEachPackage calls back for a path: wg.Add(1), go func
Found(p) ==
    /\ mainpc = "ForEachPackage"
    /\ p \notin found
    /\ found' = found \cup {p}
    /\ wg' = wg + 1
    /\ ppc' = [ppc EXCEPT ![p] = "start"]
    /\ UNCHANGED <<lookupVars, missingVars, searchVars, ws, pos, closer, chClosed, mainpc, evt, forward, reverse, errors>>

\* lines 96-103: ForEachPackage returns; go func of line 97; the two make
Enumerated ==
    /\ mainpc = "ForEachPackage"
    /\ found = Pkgs
    /\ closer' = "wait"
    /\ forward' = EmptyGraph
    /\ reverse' = EmptyGraph
    /\ mainpc' = "range"
    /\ UNCHANGED <<lookupVars, missingVars, searchVars, ws, found, ppc, pos, wg, chClosed, evt, errors>>

\* lines 74-86: the goroutine of p runs up to its first send or its return
ProducerStart(p) ==
    /\ ppc[p] = "start"
    /\ ppc' = [ppc EXCEPT ![p] =
                  IF ws[p].status = "enumErr" THEN "send75"
                  ELSE IF ws[p].status = "nogo" THEN "return"
                  ELSE IF ws[p].status = "loadErr" THEN "send83"
                  ELSE IF Len(AllImports(p)) = 0 THEN "return"
                  ELSE "sendEdge"]
    /\ UNCHANGED <<lookupVars, missingVars, searchVars, ws, found, pos, wg, closer, chClosed, mainpc, evt, forward, reverse, errors>>

\* the value the goroutine of p is blocked sending on ch
Sending(p) ==
    IF ppc[p] = "send75" THEN pathError(p, "enumErr")
    ELSE IF ppc[p] = "send83" THEN pathError(p, "loadErr")
    ELSE importEdge(p, AllImports(p)[pos[p] + 1])

\* line 105 meets a send of lines 75, 83, 87, 90 or 93: ch is unbuffered
Receive(p) ==
    /\ mainpc = "range"
    /\ ppc[p] \in {"send75", "send83", "sendEdge"}
    /\ evt' = Sending(p)
    /\ mainpc' = "switch"
    /\ IF ppc[p] = "sendEdge"
       THEN /\ pos' = [pos EXCEPT ![p] = @ + 1]
            /\ ppc' = [ppc EXCEPT ![p] =
                          IF pos[p] + 1 < Len(AllImports(p)) THEN "sendEdge" ELSE "return"]
       ELSE /\ ppc' = [ppc EXCEPT ![p] = "return"]
            /\ pos' = pos
    /\ UNCHANGED <<lookupVars, missingVars, searchVars, ws, found, wg, closer, chClosed, forward, reverse, errors>>

\* the goroutine of p returns without the wg.Done() of line 73
ProducerReturn_NoDone(p) ==
    /\ ppc[p] = "return"
    /\ ppc' = [ppc EXCEPT ![p] = "done"]
    /\ UNCHANGED <<lookupVars, missingVars, searchVars, ws, found, pos, wg, closer, chClosed, mainpc, evt, forward, reverse, errors>>

\* line 73: the deferred wg.Done() of the goroutine of p
ProducerReturn(p) ==
    /\ ppc[p] = "return"
    /\ ppc' = [ppc EXCEPT ![p] = "done"]
    /\ wg' = wg - 1
    /\ UNCHANGED <<lookupVars, missingVars, searchVars, ws, found, pos, closer, chClosed, mainpc, evt, forward, reverse, errors>>

\* line 98 without waiting for the counter to be zero
CloserWait_NoWait ==
    /\ closer = "wait"
    /\ closer' = "close"
    /\ UNCHANGED <<lookupVars, missingVars, searchVars, ws, found, ppc, pos, wg, chClosed, mainpc, evt, forward, reverse, errors>>

\* line 98: wg.Wait() returns
CloserWait ==
    /\ closer = "wait"
    /\ wg = 0
    /\ closer' = "close"
    /\ UNCHANGED <<lookupVars, missingVars, searchVars, ws, found, ppc, pos, wg, chClosed, mainpc, evt, forward, reverse, errors>>

\* line 99: close(ch)
CloserClose ==
    /\ closer = "close"
    /\ chClosed' = TRUE
    /\ closer' = "done"
    /\ UNCHANGED <<lookupVars, missingVars, searchVars, ws, found, ppc, pos, wg, mainpc, evt, forward, reverse, errors>>

\* lines 107-111 without the test of line 108
HandlePathError_Remake ==
    /\ mainpc = "switch"
    /\ evt.type = "pathError"
    /\ errors' = [made |-> TRUE, at |-> [x \in {evt.path} |-> evt.err]]
    /\ evt' = NoEvent
    /\ mainpc' = "range"
    /\ UNCHANGED <<lookupVars, missingVars, searchVars, ws, found, ppc, pos, wg, closer, chClosed, forward, reverse>>

\* lines 107-111
HandlePathError ==
    /\ mainpc = "switch"
    /\ evt.type = "pathError"
    /\ errors' = [made |-> TRUE,
                  at |-> [x \in DOMAIN errors.at \cup {evt.path} |->
                             IF x = evt.path THEN evt.err ELSE errors.at[x]]]
    /\ evt' = NoEvent
    /\ mainpc' = "range"
    /\ UNCHANGED <<lookupVars, missingVars, searchVars, ws, found, ppc, pos, wg, closer, chClosed, forward, reverse>>

\* lines 113-117 without the test of line 114
HandleImportEdge_NoFilter ==
    /\ mainpc = "switch"
    /\ evt.type = "importEdge"
    /\ forward' = addEdge(forward, evt.from, evt.to)
    /\ mainpc' = "line118"
    /\ evt' = evt
    /\ UNCHANGED <<lookupVars, missingVars, searchVars, ws, found, ppc, pos, wg, closer, chClosed, reverse, errors>>

\* lines 113-117: the edge to "C" is dropped, any other enters forward
HandleImportEdge ==
    /\ mainpc = "switch"
    /\ evt.type = "importEdge"
    /\ IF evt.to = "C"
       THEN /\ evt' = NoEvent
            /\ mainpc' = "range"
            /\ forward' = forward
       ELSE /\ forward' = addEdge(forward, evt.from, evt.to)
            /\ mainpc' = "line118"
            /\ evt' = evt
    /\ UNCHANGED <<lookupVars, missingVars, searchVars, ws, found, ppc, pos, wg, closer, chClosed, reverse, errors>>

\* line 118 with the arguments of line 117
AddReverse_Unswapped ==
    /\ mainpc = "line118"
    /\ reverse' = addEdge(reverse, evt.from, evt.to)
    /\ evt' = NoEvent
    /\ mainpc' = "range"
    /\ UNCHANGED <<lookupVars, missingVars, searchVars, ws, found, ppc, pos, wg, closer, chClosed, forward, errors>>

\* line 118 dropped
AddReverse_Dropped ==
    /\ mainpc = "line118"
    /\ reverse' = reverse
    /\ evt' = NoEvent
    /\ mainpc' = "range"
    /\ UNCHANGED <<lookupVars, missingVars, searchVars, ws, found, ppc, pos, wg, closer, chClosed, forward, errors>>

\* line 118
AddReverse ==
    /\ mainpc = "line118"
    /\ reverse' = addEdge(reverse, evt.to, evt.from)
    /\ evt' = NoEvent
    /\ mainpc' = "range"
    /\ UNCHANGED <<lookupVars, missingVars, searchVars, ws, found, ppc, pos, wg, closer, chClosed, forward, errors>>

\* lines 105 and 122: ch is closed: the loop ends and Build returns
Return ==
    /\ mainpc = "range"
    /\ chClosed
    /\ mainpc' = "returned"
    /\ UNCHANGED <<lookupVars, missingVars, searchVars, ws, found, ppc, pos, wg, closer, chClosed, evt, forward, reverse, errors>>

NextBuild ==
    \/ \E p \in Pkgs : Found(p)
    \/ Enumerated
    \/ \E p \in Pkgs : ProducerStart(p)
    \/ \E p \in Pkgs : Receive(p)
    \/ \E p \in Pkgs : ProducerReturn(p)
    \/ CloserWait
    \/ CloserClose
    \/ HandlePathError
    \/ HandleImportEdge
    \/ AddReverse
    \/ Return

SpecBuild == InitBuild /\ [][NextBuild]_vars

\* the scheduler runs some goroutine that can run
SpecBuildFair == SpecBuild /\ WF_vars(NextBuild)

(***************************************************************************)
(* Graph.Search.  The range over the map g[x] takes the keys in any order, *)
(* each once; g[x] of a missing key is the nil map, with no key.           *)
(***************************************************************************)
\* the keys of g[x]
At(g, x) == IF x \in DOMAIN g THEN g[x] ELSE {}

RECURSIVE visit(_, _, _)
RECURSIVE visitEach(_, _, _)
\* lines 40-47: the map seen after visit(x), from the map seen before it
visit(g, x, s) ==
    IF x \notin s THEN visitEach(g, At(g, x), s \cup {x}) ELSE s

\* lines 43-45
visitEach(g, ys, s) ==
    IF ys = {} THEN s
    ELSE LET y == CHOOSE z \in ys : TRUE
         IN visitEach(g, ys \ {y}, visit(g, y, s))

RECURSIVE SearchFrom(_, _, _, _)
\* lines 48-50
SearchFrom(g, rs, k, s) ==
    IF k > Len(rs) THEN s ELSE SearchFrom(g, rs, k + 1, visit(g, rs[k], s))

\* lines 37-52
Search(g, rs) == SearchFrom(g, rs, 1, {})

MaxRoots == 2

\* the graphs over the packages: a node is no key, or a key with any set of successors
SearchGraphs ==
    {[x \in K |-> f[x]] : K \in SUBSET Pkgs, f \in [Pkgs -> SUBSET Pkgs]}

InitSearch ==
    /\ graph \in SearchGraphs
    /\ roots \in SeqsOver(Pkgs, MaxRoots)
    /\ visited = {}
    /\ stack = <<>>
    /\ nextRoot = 0
    /\ spc = "roots"
    /\ TypesIdle
    /\ BuildIdle

Frame(x, at, rest) == [x |-> x, at |-> at, rest |-> rest]

Top == stack[Len(stack)]

Pop == SubSeq(stack, 1, Len(stack) - 1)

\* lines 48-49: the loop takes the next root and calls visit
SearchRoot ==
    /\ spc = "roots"
    /\ nextRoot < Len(roots)
    /\ nextRoot' = nextRoot + 1
    /\ stack' = <<Frame(roots[nextRoot + 1], "line41", {})>>
    /\ spc' = "visit"
    /\ UNCHANGED <<lookupVars, missingVars, buildVars, graph, roots, visited>>

\* lines 41-42 without the range of lines 43-45
VisitNew_NoRange ==
    /\ spc = "visit"
    /\ Top.at = "line41"
    /\ Top.x \notin visited
    /\ visited' = visited \cup {Top.x}
    /\ stack' = Append(Pop, Frame(Top.x, "line43", {}))
    /\ UNCHANGED <<lookupVars, missingVars, buildVars, graph, roots, nextRoot, spc>>

\* lines 41-42: x is new: it is marked and the range over g[x] begins
VisitNew ==
    /\ spc = "visit"
    /\ Top.at = "line41"
    /\ Top.x \notin visited
    /\ visited' = visited \cup {Top.x}
    /\ stack' = Append(Pop, Frame(Top.x, "line43", At(graph, Top.x)))
    /\ UNCHANGED <<lookupVars, missingVars, buildVars, graph, roots, nextRoot, spc>>

\* lines 43-44: the range yields a key y not yet taken and visit(y) is called
VisitRange ==
    /\ spc = "visit"
    /\ Top.at = "line43"
    /\ \E y \in Top.rest :
           stack' = Append(Append(Pop, Frame(Top.x, "line43", Top.rest \ {y})),
                           Frame(y, "line41", {}))
    /\ UNCHANGED <<lookupVars, missingVars, buildVars, graph, roots, visited, nextRoot, spc>>

\* lines 41 and 45-47: visit returns: x was seen, or the range is over
VisitReturn ==
    /\ spc = "visit"
    /\ \/ Top.at = "line41" /\ Top.x \in visited
       \/ Top.at = "line43" /\ Top.rest = {}
    /\ stack' = Pop
    /\ spc' = IF Len(stack) = 1 THEN "roots" ELSE "visit"
    /\ UNCHANGED <<lookupVars, missingVars, buildVars, graph, roots, visited, nextRoot>>

\* line 51
SearchReturn ==
    /\ spc = "roots"
    /\ nextRoot = Len(roots)
    /\ spc' = "done"
    /\ UNCHANGED <<lookupVars, missingVars, buildVars, graph, roots, visited, stack, nextRoot>>

NextSearch ==
    \/ SearchRoot
    \/ VisitNew
    \/ VisitRange
    \/ VisitReturn
    \/ SearchReturn

SpecSearch == InitSearch /\ [][NextSearch]_vars

(***************************************************************************)
(* The selector rule the lookup implements, stated over embedding paths:   *)
(* the members of (pkg, name) at depth k are the matching members declared *)
(* by the types that k embedded fields lead to from the starting type.     *)
(***************************************************************************)
SameId(d, p, n) == d.name = n /\ (n \in ExportedNames \/ d.pkg = p)

UnderlyingOf(t) == IF t.kind = "Named" THEN named[t.id].underlying ELSE t

OwnerOf(t) == IF t.kind = "Named" THEN t.id ELSE Nil

\* the members a type declares: its methods, its fields, its interface methods
Members(t) ==
    LET u == UnderlyingOf(t)
    IN (IF t.kind = "Named"
        THEN {FuncObj(t.id, i - 1, named[t.id].methods[i]) : i \in 1..Len(named[t.id].methods)}
        ELSE {})
       \cup (IF u.kind = "Struct"
             THEN {FieldObj(OwnerOf(t), i - 1, u.fields[i]) : i \in 1..Len(u.fields)}
             ELSE {})
       \cup (IF u.kind = "Interface"
             THEN {FuncObj(OwnerOf(t), i - 1, u.methods[i]) : i \in 1..Len(u.methods)}
             ELSE {})

Matching(t) == {o \in Members(t) : SameId(o.decl, pkg, name)}

\* the embedded fields of t that lead to a named type: [i, id]
Embedded(t) ==
    LET u == UnderlyingOf(t)
    IN IF u.kind # "Struct" THEN {}
       ELSE {[i |-> i - 1,
              id |-> IF u.fields[i].typ.kind = "Pointer" THEN u.fields[i].typ.base.id
                     ELSE u.fields[i].typ.id] :
                i \in {j \in 1..Len(u.fields) :
                          /\ u.fields[j].anonymous
                          /\ \/ u.fields[j].typ.kind = "Named"
                             \/ /\ u.fields[j].typ.kind = "Pointer"
                                /\ u.fields[j].typ.base.kind = "Named"}}

StartType == IF typ0.kind = "Pointer" THEN typ0.base ELSE typ0

RECURSIVE Level(_)
Level(k) ==
    IF k = 0 THEN {[t |-> StartType, path |-> <<>>]}
    ELSE UNION {{[t |-> NamedT(x.id), path |-> Append(e.path, x.i)] : x \in Embedded(e.t)} :
                   e \in Level(k - 1)}

RefMatches(k) == UNION {{[path |-> e.path, o |-> o] : o \in Matching(e.t)} : e \in Level(k)}

\* every named type is at its least depth within Cardinality(NamedIds) fields
RefDepths == 0..Cardinality(NamedIds)

NoneAbove(d) == \A k \in 0..(d - 1) : RefMatches(k) = {}

RefAmbiguous == \E d \in RefDepths : Cardinality(RefMatches(d)) >= 2 /\ NoneAbove(d)

TwoBranches(d) == \E m1, m2 \in RefMatches(d) : m1.path # m2.path

Front(s) == SubSeq(s, 1, Len(s) - 1)

(***************************************************************************)
(* C1: a match at depth 0 is the result whatever deeper matches exist, and *)
(* a returned object at depth d is a member of (pkg, name) at depth d with *)
(* no member of (pkg, name) at any depth below d.                          *)
(***************************************************************************)
C1_ShallowestWins ==
    pc = "done" =>
        /\ (RefMatches(0) # {} =>
                obj # NoObj /\ Len(index) = 1 /\ RefMatches(0) = {[path |-> <<>>, o |-> obj]})
        /\ (obj # NoObj =>
                /\ NoneAbove(Len(index) - 1)
                /\ [path |-> Front(index), o |-> obj] \in RefMatches(Len(index) - 1))

C1_Witness ==
    /\ pc = "done"
    /\ obj # NoObj
    /\ RefMatches(0) # {}
    /\ RefMatches(1) # {}
    /\ RefMatches(2) # {}

(***************************************************************************)
(* C2 as stated: whenever two distinct embedded branches at one depth both *)
(* declare a member of (pkg, name), the result is ambiguous (no object, a  *)
(* non-nil index).                                                         *)
(***************************************************************************)
C2_AsStated ==
    pc = "done" =>
        ((\E d \in RefDepths \ {0} : TwoBranches(d)) => obj = NoObj /\ index # <<>>)

(***************************************************************************)
(* C2 amended: whenever two distinct embedded branches at one depth both   *)
(* declare a member of (pkg, name) and no member of (pkg, name) is at a    *)
(* shallower depth, the result is ambiguous, in every order of the         *)
(* embedded fields.                                                        *)
(***************************************************************************)
C2_Ambiguous ==
    pc = "done" =>
        ((\E d \in RefDepths \ {0} : TwoBranches(d) /\ NoneAbove(d))
            => obj = NoObj /\ index # <<>>)

C2_Witness ==
    /\ pc = "done"
    /\ obj = NoObj
    /\ index # <<>>
    /\ TwoBranches(2)
    /\ NoneAbove(2)

(***************************************************************************)
(* C3: the search terminates on every type graph, cyclic ones included:    *)
(* no named type is expanded twice, the frontier never lies deeper than    *)
(* one field per named type (plus one for an unnamed starting type), so    *)
(* the loop over depths runs at most that many times.                      *)
(***************************************************************************)
C3_Terminates ==
    /\ \A id \in NamedIds : expanded[id] <= 1
    /\ \A k \in 1..Len(current) : Len(current[k].index) <= Cardinality(NamedIds) + 1
    /\ Len(index) <= Cardinality(NamedIds) + 1

\* id embeds itself through one or more embedded fields
RECURSIVE ReachFrom(_, _)
ReachFrom(S, k) ==
    IF k = 0 THEN S
    ELSE ReachFrom(S \cup {x.id : x \in UNION {Embedded(NamedT(id)) : id \in S}}, k - 1)

OnCycle(id) ==
    id \in ReachFrom({x.id : x \in Embedded(NamedT(id))}, Cardinality(NamedIds))

C3_Witness ==
    /\ pc = "done"
    /\ obj = NoObj
    /\ index = <<>>
    /\ \E id \in NamedIds : OnCycle(id) /\ expanded[id] = 1

(***************************************************************************)
(* C4: when no object is returned, the index is non-nil exactly when the   *)
(* shallowest depth with a member of (pkg, name) has two or more of them;  *)
(* the blank name gives no object and a nil index; a returned object is    *)
(* the only member of (pkg, name) at its depth.                            *)
(***************************************************************************)
C4_FailureSignal ==
    pc = "done" =>
        /\ (obj = NoObj => (index # <<>> <=> RefAmbiguous))
        /\ (name = "_" => obj = NoObj /\ index = <<>>)
        /\ (obj # NoObj => Cardinality(RefMatches(Len(index) - 1)) = 1)

C4_Witness ==
    /\ pc = "done"
    /\ obj = NoObj
    /\ index # <<>>
    /\ RefAmbiguous

(***************************************************************************)
(* C5: on a struct type without embedded fields the result is the member   *)
(* of (pkg, name) the type declares, with an index of length 1 holding its *)
(* position, or no object and a nil index when it declares none.           *)
(***************************************************************************)
NoEmbedding ==
    /\ UnderlyingOf(StartType).kind = "Struct"
    /\ \A i \in 1..Len(UnderlyingOf(StartType).fields) :
           ~UnderlyingOf(StartType).fields[i].anonymous

C5_FlatStruct ==
    pc = "done" /\ NoEmbedding =>
        IF Matching(StartType) = {} THEN obj = NoObj /\ index = <<>>
        ELSE Matching(StartType) = {obj} /\ index = <<obj.i>>

C5_Witness ==
    /\ pc = "done"
    /\ NoEmbedding
    /\ obj # NoObj
    /\ obj.class = "Func"
    /\ index = <<1>>

(***************************************************************************)
(* What MissingMethod decides, per required method m of T.                 *)
(***************************************************************************)
IsConcrete == Underlying(typ0).kind # "Interface"

Resolved(m) == LookupFieldOrMethod(typ0, m.pkg, m.name)

\* m resolves to a method in the method set of typ0
InMethodSet(m) ==
    IF IsConcrete
    THEN /\ Resolved(m).obj # NoObj
         /\ Resolved(m).obj.class = "Func"
         /\ ~(Resolved(m).obj.decl.recv = "pointer" /\ ~Resolved(m).indirect)
    ELSE \E i \in 1..Len(Underlying(typ0).methods) :
             SameId(Underlying(typ0).methods[i], m.pkg, m.name)

SigOfFound(m) ==
    IF IsConcrete THEN Resolved(m).obj.decl.sig
    ELSE LET i == CHOOSE j \in 1..Len(Underlying(typ0).methods) :
                      SameId(Underlying(typ0).methods[j], m.pkg, m.name)
         IN Underlying(typ0).methods[i].sig

Satisfied(m) == InMethodSet(m) /\ SigOfFound(m) = m.sig

EarlierSatisfied(k) == \A j \in 1..(k - 1) : Satisfied(T.methods[j])

(***************************************************************************)
(* C6: on a concrete type, the first required method not yet decided that  *)
(* resolves to a method with a pointer receiver is reported missing        *)
(* (returned, wrongType false) when the lookup is not indirect; when it is *)
(* indirect the method is accepted and reported only for a signature that  *)
(* is not identical, then with wrongType true.                             *)
(***************************************************************************)
PointerMethod(m) ==
    /\ Resolved(m).obj # NoObj
    /\ Resolved(m).obj.class = "Func"
    /\ Resolved(m).obj.decl.recv = "pointer"

C6_PointerReceiver ==
    mmpc = "done" /\ IsConcrete =>
        \A k \in 1..Len(T.methods) :
            EarlierSatisfied(k) /\ PointerMethod(T.methods[k]) =>
                IF ~Resolved(T.methods[k]).indirect
                THEN mmResult = [method |-> T.methods[k], wrongType |-> FALSE]
                ELSE IF Resolved(T.methods[k]).obj.decl.sig = T.methods[k].sig
                     THEN mmResult.method # T.methods[k]
                     ELSE mmResult = [method |-> T.methods[k], wrongType |-> TRUE]

\* a pointer-receiver method promoted through value embedding, on a plain A
C6_Witness ==
    /\ mmpc = "done"
    /\ typ0 = NamedT("A")
    /\ Len(T.methods) = 2
    /\ PointerMethod(T.methods[2])
    /\ Len(Resolved(T.methods[2]).index) = 2
    /\ ~Resolved(T.methods[2]).indirect
    /\ mmResult = [method |-> T.methods[2], wrongType |-> FALSE]

\* the indirect case: the pointer-receiver method is accepted
C6_WitnessIndirect ==
    /\ mmpc = "done"
    /\ typ0 = NamedT("A")
    /\ Len(T.methods) = 1
    /\ PointerMethod(T.methods[1])
    /\ Resolved(T.methods[1]).indirect
    /\ mmResult = Implements

(***************************************************************************)
(* C7: the result is (nil, false) exactly when every required method is    *)
(* satisfied; otherwise it is the first required method, in the order of   *)
(* T, that is not satisfied, with wrongType true exactly when that method  *)
(* is in the method set of typ with a signature that is not identical.  An *)
(* empty T is satisfied by every type.                                     *)
(***************************************************************************)
Unsatisfied == {k \in 1..Len(T.methods) : ~Satisfied(T.methods[k])}

FirstUnsatisfied == CHOOSE k \in Unsatisfied : \A j \in Unsatisfied : k <= j

Edges(g, p) == IF p \in DOMAIN g THEN g[p] ELSE {}

\* the direct imports of p, "C" excluded, when p loads
DirectImports(p) ==
    IF ws[p].status = "ok" THEN Range(AllImports(p)) \ {"C"} ELSE {}

FailedPkgs == {p \in Pkgs : ws[p].status \in {"enumErr", "loadErr"}}

(***************************************************************************)
(* C8: when Build has returned, whatever the interleaving of the           *)
(* goroutines was, forward[P] is exactly the set of paths in Imports,      *)
(* TestImports and XTestImports of P without "C" for every package P that  *)
(* loaded, and a package that failed or imports nothing has no forward     *)
(* edge: no edge is lost, none is invented.                                *)
(***************************************************************************)
C8_ForwardExact ==
    mainpc = "returned" =>
        /\ \A p \in Pkgs : Edges(forward, p) = DirectImports(p)
        /\ DOMAIN forward = {p \in Pkgs : DirectImports(p) # {}}

\* a has two imports, one of them in a test list, while b did not load
C8_Witness ==
    /\ mainpc = "returned"
    /\ Len(ws["a"].imports) = 1
    /\ Cardinality(Edges(forward, "a")) = 2
    /\ ws["b"].status = "loadErr"
    /\ Edges(forward, "c") = {"a"}

(***************************************************************************)
(* C9: reverse is the transpose of forward: forward[a][b] is true exactly  *)
(* when reverse[b][a] is, in the returned graphs and whenever the consumer *)
(* is between two events.                                                  *)
(***************************************************************************)
Transposed ==
    \A a \in ImportPaths, b \in ImportPaths : HasEdge(forward, a, b) <=> HasEdge(reverse, b, a)

C9_Transpose == mainpc \in {"range", "returned"} => Transposed

\* between two events, with an edge recorded and a goroutine still sending
C9_Witness ==
    /\ mainpc = "range"
    /\ HasEdge(forward, "a", "b")
    /\ HasEdge(reverse, "b", "a")
    /\ \E p \in Pkgs : ppc[p] = "sendEdge"

(***************************************************************************)
(* C10: when Build has returned, the keys of errors are exactly the        *)
(* packages the enumeration reported with an error or whose load failed    *)
(* with an error other than no buildable Go source, each with its error;   *)
(* a package without buildable Go source is no key of errors and has no    *)
(* forward edge; and every package that loaded has all its edges whatever  *)
(* happened to the others.                                                 *)
(***************************************************************************)
C10_ErrorIsolation ==
    mainpc = "returned" =>
        /\ DOMAIN errors.at = FailedPkgs
        /\ \A p \in FailedPkgs :
               errors.at[p] = (IF ws[p].status = "enumErr" THEN "enumErr" ELSE "loadErr")
        /\ errors.made <=> FailedPkgs # {}
        /\ \A p \in Pkgs : ws[p].status = "nogo" =>
               p \notin DOMAIN errors.at /\ p \notin DOMAIN forward
        /\ \A p \in Pkgs : ws[p].status = "ok" => DirectImports(p) \subseteq Edges(forward, p)

\* two packages fail, in the two ways, and the third has its edges
C10_Witness ==
    /\ mainpc = "returned"
    /\ ws["b"].status = "loadErr"
    /\ ws["c"].status = "enumErr"
    /\ DOMAIN errors.at = {"b", "c"}
    /\ Edges(forward, "a") = {"b", "c"}

(***************************************************************************)
(* The reflexive transitive closure, by iterating the successor relation.  *)
(***************************************************************************)
RECURSIVE ReachIn(_, _, _)
ReachIn(g, R, k) ==
    IF k = 0 THEN R
    ELSE LET P == ReachIn(g, R, k - 1)
         IN P \cup UNION {At(g, x) : x \in P}

Closure(g, R) == ReachIn(g, R, Cardinality(ImportPaths))

RECURSIVE SumFn(_, _)
SumFn(f, S) ==
    IF S = {} THEN 0
    ELSE LET x == CHOOSE z \in S : TRUE IN f[x] + SumFn(f, S \ {x})

\* the steps Search still has to take, at most
SearchWork ==
    (IF spc = "done" THEN 0 ELSE 1)
    + 3 * (Len(roots) - nextRoot)
    + SumFn([x \in Pkgs |-> 3 * Cardinality(At(graph, x))], Pkgs \ visited)
    + SumFn([i \in 1..Len(stack) |->
                IF stack[i].at = "line41" THEN 2 ELSE 1 + 3 * Cardinality(stack[i].rest)],
            1..Len(stack))

\* Search can take a step
SearchCanStep ==
    \/ spc = "roots"
    \/ /\ spc = "visit"
       /\ Len(stack) > 0

SearchResult ==
    spc = "done" =>
        /\ visited = Closure(graph, Range(roots))
        /\ Range(roots) \subseteq visited
        /\ visited = Search(graph, roots)

(***************************************************************************)
(* C11: Search terminates on every finite graph, cyclic ones included      *)
(* (every step lowers a natural number, and it can step until it has       *)
(* returned), and it returns exactly the reflexive transitive closure: a   *)
(* node is in the result iff it is a root or reachable from a root; every  *)
(* root is in the result, with or without an entry in the graph.  The      *)
(* graphs are all graphs over the packages, those Build returns included.  *)
(***************************************************************************)
C11_SearchClosure ==
    /\ [](SearchResult /\ SearchWork >= 0 /\ (spc # "done" => SearchCanStep))
    /\ [][SearchWork' < SearchWork]_vars

\* a cycle a -> b -> a, searched from c, which is no key, and from a
C11_Witness ==
    /\ spc = "done"
    /\ roots = <<"c", "a">>
    /\ "c" \notin DOMAIN graph
    /\ At(graph, "a") = {"b"}
    /\ At(graph, "b") = {"a"}
    /\ visited = {"a", "b", "c"}

(***************************************************************************)
(* C12: under fair scheduling Build returns, with every goroutine done,    *)
(* every edge sent and the channel closed; and no goroutine is ever        *)
(* blocked sending when the consumer no longer receives (the loop has      *)
(* ended or the channel is closed).                                        *)
(***************************************************************************)
Blocked(p) == ppc[p] \in {"send75", "send83", "sendEdge"}

AllSent(p) ==
    /\ ppc[p] = "done"
    /\ ws[p].status = "ok" => pos[p] = Len(AllImports(p))

C12_BuildReturns ==
    /\ <>(/\ mainpc = "returned"
          /\ chClosed
          /\ \A p \in Pkgs : AllSent(p))
    /\ [](\A p \in Pkgs : Blocked(p) => ~chClosed /\ mainpc # "returned")

\* Build has returned after a goroutine was blocked behind another's event
C12_Witness ==
    /\ mainpc = "returned"
    /\ chClosed
    /\ \A p \in Pkgs : AllSent(p)
    /\ pos["a"] = 2
    /\ pos["b"] = 1

(***************************************************************************)
(* C13: the channel is closed only after every goroutine registered with   *)
(* the WaitGroup has finished, so no goroutine is ever sending on a closed *)
(* channel; it is closed once; the consumer does not stop reading while an *)
(* event is still to be sent; and forward, reverse and errors change only  *)
(* in steps of the consumer, never in a step of a producer or the closer.  *)
(***************************************************************************)
ClosedAfterProducers ==
    /\ closer \in {"close", "done"} => found = Pkgs /\ wg = 0 /\ \A p \in Pkgs : AllSent(p)
    /\ chClosed <=> closer = "done"
    /\ \A p \in Pkgs : Blocked(p) => ~chClosed
    /\ mainpc = "returned" => chClosed /\ \A p \in Pkgs : AllSent(p)
    /\ wg = Cardinality({p \in Pkgs : ppc[p] \notin {"none", "done"}})

ConsumerOwnsResults ==
    forward' # forward \/ reverse' # reverse \/ errors' # errors =>
        /\ mainpc \in {"switch", "line118"}
        /\ UNCHANGED <<ppc, pos, wg, closer, chClosed, found>>

ClosedOnce == chClosed => chClosed' /\ closer' = closer

C13_ChannelProtocol ==
    /\ []ClosedAfterProducers
    /\ [][ConsumerOwnsResults /\ ClosedOnce]_vars

\* the channel is closed, after events of both kinds, and the loop has not yet ended
C13_Witness ==
    /\ chClosed
    /\ mainpc = "range"
    /\ pos["a"] = 2
    /\ errors.made

(***************************************************************************)
(* C14: "C" is never in the graph: in every state of Build, the returned   *)
(* result included, no forward[P] contains "C" and reverse has no key "C", *)
(* whatever the import lists are.                                          *)
(***************************************************************************)
C14_NoCgo ==
    /\ \A p \in DOMAIN forward : "C" \notin forward[p]
    /\ "C" \notin DOMAIN reverse
    /\ mainpc = "line118" => evt.to # "C"

\* a imports "C" and b: the event of "C" was received and only b is in the graph
C14_Witness ==
    /\ mainpc = "returned"
    /\ ws["a"].status = "ok"
    /\ AllImports("a") = <<"C", "b">>
    /\ forward["a"] = {"b"}
    /\ DOMAIN reverse = {"b"}

(***************************************************************************)
(* The embedding paths the search follows: the paths of depth k whose      *)
(* every type but the last appears at no shallower depth (a type met again *)
(* at a deeper depth is shadowed and not descended into).                  *)
(***************************************************************************)
RECURSIVE LiveLevel(_)
RECURSIVE TypesAbove(_)
\* the types on the live paths of the depths below k
TypesAbove(k) ==
    IF k = 0 THEN {} ELSE TypesAbove(k - 1) \cup {e.t : e \in LiveLevel(k - 1)}

LiveLevel(k) ==
    IF k = 0 THEN {[t |-> StartType, path |-> <<>>]}
    ELSE UNION {{[t |-> NamedT(x.id), path |-> Append(e.path, x.i)] : x \in Embedded(e.t)} :
                   e \in {l \in LiveLevel(k - 1) : l.t \notin TypesAbove(k - 1)}}

\* the live paths of depth k that end in the named type id
PathsTo(id, k) == {e \in LiveLevel(k) : e.t = NamedT(id)}

\* the depth of the frontier
Depth == IF Len(current) = 0 THEN 0 ELSE Len(current[1].index)

(***************************************************************************)
(* C15: at every depth the frontier has one entry for each named type the  *)
(* embedding paths of that depth lead to, flagged multiples exactly when   *)
(* two or more of these paths lead to it: the entries of a type reached    *)
(* twice are merged, and the entries derived from a merged entry inherit   *)
(* the flag; and a match in an entry flagged multiples gives the ambiguous *)
(* result (no object, non-nil index).                                      *)
(***************************************************************************)
C15_Multiples ==
    /\ pc = "loop" =>
           /\ \A j, k \in 1..Len(current) : j # k => current[j].typ # current[k].typ
           /\ \A k \in 1..Len(current) :
                  current[k].typ # Nil =>
                      /\ Len(current[k].index) = Depth
                      /\ \E e \in PathsTo(current[k].typ, Depth) : e.path = current[k].index
                      /\ current[k].multiples <=>
                             Cardinality(PathsTo(current[k].typ, Depth)) >= 2
           /\ Depth > 0 =>
                  \A e \in LiveLevel(Depth) : \E k \in 1..Len(current) : NamedT(current[k].typ) = e.t
    /\ pc = "done" =>
           \A k \in 1..Len(current) :
               /\ current[k].multiples
               /\ NamedT(current[k].typ) \notin TypesAbove(Depth)
               /\ Matching(NamedT(current[k].typ)) # {}
               => obj = NoObj /\ index # <<>>

\* struct{B; C} with B and C embedding D and D embedding A: the entries of D are merged
\* and the match is a method of A, whose entry derives from the merged one
C15_Witness ==
    /\ pc = "done"
    /\ Len(current) = 1
    /\ current[1].multiples
    /\ Depth = 3
    /\ Cardinality(PathsTo(current[1].typ, 2)) = 0
    /\ Cardinality(PathsTo(current[1].typ, 3)) = 2
    /\ Matching(NamedT(current[1].typ)) # {}
    /\ obj = NoObj
    /\ Len(index) = 4

(***************************************************************************)
(* Following an index path from the starting type: each entry but the last *)
(* selects an embedded field of the struct reached so far.                 *)
(***************************************************************************)
RECURSIVE WalkOk(_, _)
WalkOk(t, path) ==
    \/ Len(path) = 0
    \/ LET u == UnderlyingOf(t)
       IN /\ u.kind = "Struct"
          /\ path[1] + 1 \in 1..Len(u.fields)
          /\ u.fields[path[1] + 1].anonymous
          /\ deref(u.fields[path[1] + 1].typ).typ.kind = "Named"
          /\ WalkOk(deref(u.fields[path[1] + 1].typ).typ, Tail(path))

RECURSIVE EndOf(_, _)
EndOf(t, path) ==
    IF Len(path) = 0 THEN t
    ELSE EndOf(deref(UnderlyingOf(t).fields[path[1] + 1].typ).typ, Tail(path))

(***************************************************************************)
(* C16: on success at embedding depth d (the least depth with a member of  *)
(* (pkg, name)) the index has length d+1; its first d entries are the      *)
(* indices of the embedded fields descended through from the starting      *)
(* type, and its last entry is the index of the returned object among the  *)
(* declared methods, the struct fields or the interface methods of the     *)
(* type reached: following the index reaches exactly the returned object.  *)
(***************************************************************************)
C16_IndexPath ==
    pc = "done" /\ obj # NoObj =>
        /\ Len(index) >= 1
        /\ RefMatches(Len(index) - 1) # {}
        /\ NoneAbove(Len(index) - 1)
        /\ WalkOk(StartType, Front(index))
        /\ {o \in Members(EndOf(StartType, Front(index))) :
               o.class = obj.class /\ o.i = index[Len(index)]} = {obj}

\* the method x of C, found through field 0 of A (B) and field 1 of B (C)
C16_Witness ==
    /\ pc = "done"
    /\ obj # NoObj
    /\ obj.class = "Func"
    /\ obj.owner = "C"
    /\ index = <<0, 1, 0>>

RECURSIVE PointerOnPath(_, _)
\* some embedded field on the path from t has pointer type
PointerOnPath(t, path) ==
    /\ Len(path) > 0
    /\ \/ UnderlyingOf(t).fields[path[1] + 1].typ.kind = "Pointer"
       \/ PointerOnPath(deref(UnderlyingOf(t).fields[path[1] + 1].typ).typ, Tail(path))

(***************************************************************************)
(* C17: on success indirect is true iff the starting type was a pointer or *)
(* some embedded field on the returned index path has pointer type; it is  *)
(* false when a non-pointer starting type leads to the object through      *)
(* fields embedded by value only.                                          *)
(***************************************************************************)
C17_Indirect ==
    pc = "done" /\ obj # NoObj =>
        (indirect <=> typ0.kind = "Pointer" \/ PointerOnPath(StartType, Front(index)))

\* from A, by value into B, then through the embedded *D
C17_Witness ==
    /\ pc = "done"
    /\ obj # NoObj
    /\ typ0 = NamedT("A")
    /\ Len(index) = 3
    /\ UnderlyingOf(StartType).fields[index[1] + 1].typ.kind = "Named"
    /\ PointerOnPath(StartType, Front(index))
    /\ indirect

\* a member with the spelling of name that (pkg, name) does not select
Invisible(k) ==
    \E e \in Level(k) : \E o \in Members(e.t) : o.decl.name = name /\ ~SameId(o.decl, pkg, name)

(***************************************************************************)
(* C18: the returned object has the requested name and is exported or      *)
(* declared in the requesting package; a non-exported member of another    *)
(* package with the same spelling is never returned, is no match for a     *)
(* collision and shadows nothing: when the visible members of (pkg, name)  *)
(* at the least depth that has any are exactly one, it is the result.      *)
(***************************************************************************)
C18_Visibility ==
    pc = "done" =>
        /\ obj # NoObj =>
               /\ obj.decl.name = name
               /\ name \in ExportedNames \/ obj.decl.pkg = pkg
        /\ \A d \in RefDepths :
               NoneAbove(d) /\ Cardinality(RefMatches(d)) = 1 =>
                   /\ obj # NoObj
                   /\ RefMatches(d) = {[path |-> Front(index), o |-> obj]}

\* x of another package at the depth of the result or above it, and x is found
C18_Witness ==
    /\ pc = "done"
    /\ obj # NoObj
    /\ Len(index) >= 2
    /\ \E k \in 0..(Len(index) - 1) : Invisible(k)

(***************************************************************************)
(* C19: whenever no object is returned (blank name, not found, ambiguous)  *)
(* the returned indirect is false.                                         *)
(***************************************************************************)
C19_AbsentNotIndirect == pc = "done" /\ obj = NoObj => ~indirect

(***************************************************************************)
(* C20: for the forward and reverse graphs one Build returns, reachability *)
(* is dual: y is in forward.Search(x) iff x is in reverse.Search(y), for   *)
(* all nodes x and y.                                                      *)
(***************************************************************************)
C20_SearchDual ==
    mainpc = "returned" =>
        \A x \in ImportPaths, y \in ImportPaths :
            y \in Search(forward, <<x>>) <=> x \in Search(reverse, <<y>>)

\* a imports b and b imports c: c is reached from a, and a from c in reverse, in two steps
C20_Witness ==
    /\ mainpc = "returned"
    /\ At(forward, "a") = {"b"}
    /\ At(forward, "b") = {"c"}
    /\ Search(forward, <<"a">>) = {"a", "b", "c"}
    /\ Search(reverse, <<"c">>) = {"a", "b", "c"}
====
